---- MODULE Spec2Model ----
(***************************************************************************)
(* PDF-bot: the per-user conversation state machine of src/bot.            *)
(*                                                                         *)
(* The session store (src/bot/states.py) is four process-wide dicts.       *)
(* A handler is modelled as a task whose pc names the await it is          *)
(* suspended at; the code between two awaits is one atomic action.  In     *)
(* polling mode (src/main.py:171) the application runs one handler at a    *)
(* time; in webhook mode (src/main.py:104) every update is run by its own  *)
(* coroutine, so handlers interleave at their awaits.                      *)
(*                                                                         *)
(* Strings the code takes apart (file names, paths, button data, text      *)
(* input) are sequences of characters or of atomic chunks that hold none   *)
(* of the characters the code looks for.                                   *)
(***************************************************************************)
EXTENDS Integers, Sequences, FiniteSets, TLC

VARIABLES
    user_languages,   \* states.py:10  dict user_id -> language code
    user_states,      \* states.py:11  dict user_id -> state tag
    user_files,       \* states.py:12  dict user_id -> list of paths
    user_temp_data,   \* states.py:13  dict user_id -> dict key -> value
    disk,             \* the files under TEMP_DIR: path -> user whose handler wrote it
    tasks,            \* the handler coroutines in flight, by slot
    reply,            \* per user, the key of the last response sent
    calls,            \* number of Operation Adapter invocations so far
    lastCall,         \* the last Operation Adapter invocation
    nevents,          \* number of updates received so far
    staged,           \* observer: per user, the uploads accepted since the flow began
    flow,             \* observer: per user, how far the plain merge scenario has got
    chosen,           \* observer: per user, the language last selected by button
    nphotos,          \* observer: per user, the photos sent since image collection began
    handed,           \* observer: the files on disk already handed to an adapter
    lastOp,           \* observer: the last direct call of a store operation
    answered          \* observer: number of responses sent so far

vars == << user_languages, user_states, user_files, user_temp_data, disk,
           tasks, reply, answered, calls, lastCall, nevents, staged, flow,
           chosen, nphotos, handed, lastOp >>

session == << user_states, user_files, user_temp_data >>

(***************************************************************************)
(* Bounds of the model.                                                    *)
(***************************************************************************)
MaxEvents == 4

Users == {1, 2}
Slots == {1, 2}

(***************************************************************************)
(* Program constants.                                                      *)
(***************************************************************************)
DEFAULT_LANGUAGE == "en"
MAX_FILE_SIZE_MB == 50
BytesPerMB == 1048576
TEMP_DIR == << "temp" >>
None == "None"
NonePath == << "None" >>
EmptyDict == [x \in {} |-> x]

(***************************************************************************)
(* Python string operations, on sequences of characters.                   *)
(***************************************************************************)
LowerChar(c) ==
    CASE c = "P" -> "p"
      [] c = "D" -> "d"
      [] c = "F" -> "f"
      [] c = "A" -> "a"
      [] c = "B" -> "b"
      [] OTHER -> c

lower(s) == [i \in 1..Len(s) |-> LowerChar(s[i])]

endswith(s, suffix) ==
    /\ Len(s) >= Len(suffix)
    /\ SubSeq(s, Len(s) - Len(suffix) + 1, Len(s)) = suffix

\* the largest index of character c in s, 0 when s holds none
LastIndex(s, c) ==
    LET hits == {i \in 1..Len(s) : s[i] = c}
    IN  IF hits = {} THEN 0 ELSE CHOOSE i \in hits : \A j \in hits : j <= i

\* s.rsplit(c, 1)[0]
rsplit_head(s, c) ==
    IF LastIndex(s, c) = 0 THEN s ELSE SubSeq(s, 1, LastIndex(s, c) - 1)

\* os.path.join(dir, name) for a relative name
path_join(dir, name) == dir \o << "/" >> \o name

\* os.path.dirname(path)
dirname(path) == rsplit_head(path, "/")

is_pdf_name_has_ext(file_path) == LastIndex(file_path, ".") > 0

\* file_path.lower().endswith('.pdf')
is_pdf_name(file_path) == endswith(lower(file_path), << ".", "p", "d", "f" >>)

\* str(n) for the small naturals of the model, one chunk
str(n) == ToString(n)

\* f"image_{user_id}_{n}.jpg"
image_name(user_id, n) ==
    << "image_", str(user_id), "_", str(n), ".", "j", "p", "g" >>

(***************************************************************************)
(* Dicts.                                                                  *)
(***************************************************************************)
DictSet(d, k, v) == [x \in (DOMAIN d) \cup {k} |-> IF x = k THEN v ELSE d[x]]
\* what is left of a dict once a statement on it has raised KeyError: no
\* user has the key 0
KeyError == [x \in {0} |-> "KeyError"]

\* del d[k]
DictDel(d, k) ==
    IF k \in DOMAIN d THEN [x \in (DOMAIN d) \ {k} |-> d[x]] ELSE KeyError

(***************************************************************************)
(* The session store, src/bot/states.py.  Each operator takes the dict it  *)
(* works on and returns the result (a read) or the new dict (a write).     *)
(***************************************************************************)
get_user_language(langs, user_id) ==
    IF user_id \in DOMAIN langs THEN langs[user_id] ELSE DEFAULT_LANGUAGE

set_user_language(langs, user_id, language) == DictSet(langs, user_id, language)

get_state(states, user_id) ==
    IF user_id \in DOMAIN states THEN states[user_id] ELSE None

set_state(states, user_id, state) == DictSet(states, user_id, state)

clear_state_keeps(states, user_id) == states

clear_state(states, user_id) ==
    IF user_id \in DOMAIN states THEN DictDel(states, user_id) ELSE states

get_files(files, user_id) ==
    IF user_id \in DOMAIN files THEN files[user_id] ELSE << >>

add_file_unique(files, user_id, file_path) ==
    IF \E i \in 1..Len(get_files(files, user_id)) :
            get_files(files, user_id)[i] = file_path
    THEN DictSet(files, user_id, get_files(files, user_id))
    ELSE DictSet(files, user_id, Append(get_files(files, user_id), file_path))

add_file_prepend(files, user_id, file_path) ==
    DictSet(files, user_id, << file_path >> \o get_files(files, user_id))

add_file(files, user_id, file_path) ==
    DictSet(files, user_id, Append(get_files(files, user_id), file_path))

clear_files_everyone(files, user_id) == [v \in DOMAIN files |-> << >>]

clear_files(files, user_id) ==
    IF user_id \in DOMAIN files THEN DictSet(files, user_id, << >>) ELSE files

get_temp(temp, user_id, key) ==
    IF user_id \notin DOMAIN temp THEN NonePath
    ELSE IF key \in DOMAIN temp[user_id] THEN temp[user_id][key] ELSE NonePath

set_temp(temp, user_id, key, value) ==
    DictSet(temp, user_id,
            DictSet(IF user_id \in DOMAIN temp THEN temp[user_id] ELSE EmptyDict,
                    key, value))

clear_temp_unguarded(temp, user_id) == DictDel(temp, user_id)

clear_temp(temp, user_id) ==
    IF user_id \in DOMAIN temp THEN DictDel(temp, user_id) ELSE temp

clear_all_keeps_params(user_id) ==
    /\ user_states' = clear_state(user_states, user_id)
    /\ user_files' = clear_files(user_files, user_id)
    /\ user_temp_data' = user_temp_data
    /\ user_languages' = user_languages

clear_all_with_language(user_id) ==
    /\ user_states' = clear_state(user_states, user_id)
    /\ user_files' = clear_files(user_files, user_id)
    /\ user_temp_data' = clear_temp(user_temp_data, user_id)
    /\ user_languages' = IF user_id \in DOMAIN user_languages
                         THEN DictDel(user_languages, user_id)
                         ELSE user_languages

\* states.py:84  clear_all: the three clears, on the dicts themselves
clear_all(user_id) ==
    /\ user_states' = clear_state(user_states, user_id)
    /\ user_files' = clear_files(user_files, user_id)
    /\ user_temp_data' = clear_temp(user_temp_data, user_id)
    /\ user_languages' = user_languages

(***************************************************************************)
(* src/utils/file_manager.py                                               *)
(***************************************************************************)
\* download_file: the path the download is written to
download_path(filename) == path_join(TEMP_DIR, filename)

\* os.path.exists(path)
exists(d, path) == path \in DOMAIN d

\* a file written (created or overwritten) by a handler of user_id
write_file(d, path, user_id) == DictSet(d, path, user_id)

\* what is left of the disk once a call on it has raised: no path is
\* << "FileNotFoundError" >>
FileNotFoundError == [x \in {<< "FileNotFoundError" >>} |-> 0]

\* os.remove(path): raises for None, for '' and for a file that is not there
os_remove(d, path) ==
    IF path # NonePath /\ path # << >> /\ exists(d, path)
    THEN [x \in (DOMAIN d) \ {path} |-> d[x]]
    ELSE FileNotFoundError

\* the loop without its guard and without its try/except: the first
\* os.remove that raises ends the call
RECURSIVE cleanup_files_unprotected(_, _)
cleanup_files_unprotected(d, file_paths) ==
    IF file_paths = << >> \/ d = FileNotFoundError THEN d
    ELSE cleanup_files_unprotected(os_remove(d, Head(file_paths)),
                                   Tail(file_paths))

\* cleanup_files: the disk after deleting the paths of the list that exist;
\* an os.remove that raises is logged and the loop goes on
RECURSIVE cleanup_files(_, _)
cleanup_files(d, file_paths) ==
    IF file_paths = << >> THEN d
    ELSE cleanup_files(
            IF Head(file_paths) # NonePath /\ Head(file_paths) # << >>
               /\ exists(d, Head(file_paths))
            THEN IF os_remove(d, Head(file_paths)) = FileNotFoundError
                 THEN d
                 ELSE os_remove(d, Head(file_paths))
            ELSE d,
            Tail(file_paths))

(***************************************************************************)
(* Text input: int(text.strip()), handlers.py:553 and :707.                *)
(***************************************************************************)
Digits == << "0", "1", "2", "3", "4", "5", "6", "7", "8", "9" >>

IsDigit(c) == \E i \in 1..Len(Digits) : Digits[i] = c

DigitValue(c) == (CHOOSE i \in 1..Len(Digits) : Digits[i] = c) - 1

RECURSIVE lstrip(_)
lstrip(s) == IF s # << >> /\ Head(s) = " " THEN lstrip(Tail(s)) ELSE s

RECURSIVE rstrip(_)
rstrip(s) ==
    IF s # << >> /\ s[Len(s)] = " " THEN rstrip(SubSeq(s, 1, Len(s) - 1)) ELSE s

strip(s) == rstrip(lstrip(s))

\* the literal without its sign
Unsigned(s) == IF s # << >> /\ Head(s) \in {"+", "-"} THEN Tail(s) ELSE s

\* int(s) raises ValueError unless s is an optional sign and one or more digits
int_raises(s) ==
    \/ Unsigned(strip(s)) = << >>
    \/ \E i \in 1..Len(Unsigned(strip(s))) : ~IsDigit(Unsigned(strip(s))[i])

RECURSIVE DigitsValue(_)
DigitsValue(s) ==
    IF s = << >> THEN 0
    ELSE 10 * DigitsValue(SubSeq(s, 1, Len(s) - 1)) + DigitValue(s[Len(s)])

int(s) ==
    IF strip(s) # << >> /\ Head(strip(s)) = "-"
    THEN 0 - DigitsValue(Unsigned(strip(s)))
    ELSE DigitsValue(Unsigned(strip(s)))

(***************************************************************************)
(* Tasks: one handler coroutine each.                                      *)
(*   kind   the update that started it                                     *)
(*   op     the operation the handler went into                            *)
(*   pc     the await it is suspended at:                                  *)
(*            download  await download_file(...)                           *)
(*            reject    await reply_text("Please send ...") before cleanup *)
(*            adapter   await of the progress message before the adapter   *)
(*            sent      awaits of the delivery, before the final cleanup   *)
(*            failed    await of the error reply, before the cleanup       *)
(*   state  the state tag read when the update arrived                     *)
(*   path   the downloaded file, or the pdf_path read from the params      *)
(*   pdf    watermark: the pdf_path read from the params                   *)
(*   files  do_merge / create_pdf: the list read, once it is no longer the *)
(*          store's own list object (alias = FALSE)                        *)
(*   inputs the paths the adapter was called with; out, what it returned   *)
(***************************************************************************)
NoTask ==
    [kind |-> "none", op |-> "none", uid |-> 0, pc |-> "none", state |-> None,
     path |-> NonePath, pdf |-> NonePath, angle |-> 0, text |-> << >>,
     files |-> << >>, alias |-> FALSE, inputs |-> << >>, out |-> NonePath]

NoCall ==
    [op |-> "none", uid |-> 0, inputs |-> << >>, angle |-> 0, text |-> << >>,
     ok |-> FALSE, again |-> FALSE]

FreeSlots == {s \in Slots : tasks[s] = NoTask}

FirstFree == CHOOSE s \in FreeSlots : \A r \in FreeSlots : s <= r

Spawn(tk, t) == [tk EXCEPT ![FirstFree] = t]

Busy(u) == \E s \in Slots : tasks[s].uid = u

\* get_files returns the list object of the store: a handler that keeps it
\* across an await sees later appends, until clear_files rebinds the key
TaskFiles(t) == IF t.alias THEN get_files(user_files, t.uid) ELSE t.files

\* clear_files(u) rebinds user_files[u]: the handlers that hold the old list
\* keep it as it was
Detach(tk, u) ==
    IF u \notin DOMAIN user_files THEN tk
    ELSE [s \in Slots |->
            IF tk[s].uid = u /\ tk[s].alias
            THEN [tk[s] EXCEPT !.alias = FALSE, !.files = user_files[u]]
            ELSE tk[s]]

Say(u, key) ==
    /\ reply' = [reply EXCEPT ![u] = key]
    /\ answered' = answered + 1

(***************************************************************************)
(* Observers.  flow[u] follows the scenario "merge-start, accepted PDF     *)
(* uploads, execute-merge, with no other update of that user and none      *)
(* while a handler of that user is still running":                         *)
(*   off -> merge -> do_merge -> merged, and off on anything else.         *)
(* It is "images" from an image-collection start on, as long as the user   *)
(* sends photos only; nphotos[u] counts them.                              *)
(***************************************************************************)
ImageStarts == {<< "jpg", "to", "pdf" >>, << "png", "to", "pdf" >>, << "convert" >>}

SetOf(seq) == {seq[i] : i \in 1..Len(seq)}

flow_after_button(u, data) ==
    IF Busy(u) THEN "off"
    ELSE IF data = << "merge" >> THEN "merge"
    ELSE IF data \in ImageStarts THEN "images"
    ELSE IF data = << "do", "merge" >> /\ flow[u] = "merge" THEN "do_merge"
    ELSE "off"

flow_after_upload(u) == IF ~Busy(u) /\ flow[u] = "merge" THEN "merge" ELSE "off"

Flow(u, value) ==
    /\ flow' = [flow EXCEPT ![u] = value]
    /\ nphotos' = [nphotos EXCEPT ![u] = 0]

FlowPhoto(u) ==
    /\ flow' = [flow EXCEPT ![u] = IF flow[u] = "images" THEN "images" ELSE "off"]
    /\ nphotos' = [nphotos EXCEPT ![u] = IF flow[u] = "images" THEN @ + 1 ELSE 0]

(***************************************************************************)
(* Operation Adapters, src/services: the output path each computes, and    *)
(* what it needs to succeed.  Whether it succeeds when it can is the       *)
(* environment's choice (file content, I/O).                               *)
(***************************************************************************)
PdfExt == << ".", "p", "d", "f" >>

\* pdf_path.rsplit('.', 1)[0] + '<suffix>.pdf'
suffixed(pdf_path, suffix) == rsplit_head(pdf_path, ".") \o << suffix >> \o PdfExt

\* doc_path.rsplit('.', 1)[-1].lower()
file_ext(doc_path) ==
    lower(SubSeq(doc_path, LastIndex(doc_path, ".") + 1, Len(doc_path)))

merge_pdfs(pdf_paths) ==
    path_join(dirname(pdf_paths[1]), << "merged_output" >> \o PdfExt)

images_to_pdf(image_paths) ==
    path_join(dirname(image_paths[1]), << "images_combined" >> \o PdfExt)

rotate_pdf(pdf_path) == suffixed(pdf_path, "_rotated")
compress_pdf(pdf_path) == suffixed(pdf_path, "_compressed")
unlock_pdf(pdf_path) == suffixed(pdf_path, "_unlocked")
protect_pdf(pdf_path) == suffixed(pdf_path, "_protected")
extract_pages(pdf_path) == suffixed(pdf_path, "_extracted")
remove_pages(pdf_path) == suffixed(pdf_path, "_removed")
add_watermark(pdf_path) == suffixed(pdf_path, "_watermarked")
add_page_numbers(pdf_path) == suffixed(pdf_path, "_numbered")
convert_image_to_pdf(image_path) == suffixed(image_path, "_converted")

convert_document_to_pdf(doc_path) ==
    IF file_ext(doc_path) = << "p", "d", "f" >> THEN doc_path
    ELSE suffixed(doc_path, "_converted")

ListOps == {"merge", "images_to_pdf"}
ScalarOps == {"rotate", "compress", "unlock", "protect", "extract_pages",
              "remove_pages"}
UploadOps == {"watermark", "page_numbers", "convert_document", "convert_image"}

\* the paths handed to the adapter
adapter_inputs(t) ==
    IF t.op \in ListOps THEN TaskFiles(t)
    ELSE IF t.op = "watermark" THEN << t.pdf, t.path >>
    ELSE << t.path >>

adapter_output(t) ==
    CASE t.op = "merge" -> merge_pdfs(TaskFiles(t))
      [] t.op = "images_to_pdf" -> images_to_pdf(TaskFiles(t))
      [] t.op = "rotate" -> rotate_pdf(t.path)
      [] t.op = "compress" -> compress_pdf(t.path)
      [] t.op = "unlock" -> unlock_pdf(t.path)
      [] t.op = "protect" -> protect_pdf(t.path)
      [] t.op = "extract_pages" -> extract_pages(t.path)
      [] t.op = "remove_pages" -> remove_pages(t.path)
      [] t.op = "watermark" -> add_watermark(t.pdf)
      [] t.op = "page_numbers" -> add_page_numbers(t.path)
      [] t.op = "convert_document" -> convert_document_to_pdf(t.path)
      [] t.op = "convert_image" -> convert_image_to_pdf(t.path)

\* merge_pdfs skips the paths that are missing; images_to_pdf needs one image
\* it can open; the others open their input; convert_document_to_pdf raises
\* on an extension it does not know
adapter_can_succeed(t) ==
    CASE t.op = "merge" -> Len(TaskFiles(t)) >= 2
      [] t.op = "images_to_pdf" ->
            \E i \in 1..Len(TaskFiles(t)) : exists(disk, TaskFiles(t)[i])
      [] t.op = "watermark" -> exists(disk, t.pdf) /\ exists(disk, t.path)
      [] t.op = "convert_document" ->
            /\ exists(disk, t.path)
            /\ file_ext(t.path) \in {<< "p", "d", "f" >>, << "t", "x", "t" >>,
                                     << "d", "o", "c", "x" >>}
      [] OTHER -> exists(disk, t.path)

(***************************************************************************)
(* Button presses, src/bot/callbacks.py.  Button data is the list of its   *)
(* "_"-separated parts: "lang_en" is << "lang", "en" >>.                   *)
(***************************************************************************)
\* data.startswith("lang_")
startswith_lang(data) == Len(data) >= 2 /\ data[1] = "lang"

MenuButtons ==
    {<< "menu", "organize" >>, << "menu", "optimize" >>, << "menu", "convert" >>,
     << "menu", "edit" >>, << "menu", "security" >>}

\* operation-start buttons: the state set, whether clear_files is called,
\* the prompt
StartTable ==
    << [data |-> << "merge" >>, state |-> "merging", clear |-> TRUE,
        prompt |-> "send_pdfs"],
       [data |-> << "split" >>, state |-> "splitting", clear |-> FALSE,
        prompt |-> "send_pdf_for_split"],
       [data |-> << "extract", "pages" >>, state |-> "extracting_pages",
        clear |-> FALSE, prompt |-> "send_pdf_for_extract_pages"],
       [data |-> << "remove", "pages" >>, state |-> "removing_pages",
        clear |-> FALSE, prompt |-> "send_pdf_for_remove_pages"],
       [data |-> << "extract", "images" >>, state |-> "extracting_images",
        clear |-> FALSE, prompt |-> "send_pdf_for_extract_images"],
       [data |-> << "extract", "text" >>, state |-> "extracting_text",
        clear |-> FALSE, prompt |-> "send_pdf_for_extract_text"],
       [data |-> << "compress" >>, state |-> "compressing", clear |-> FALSE,
        prompt |-> "send_pdf_for_compress"],
       [data |-> << "repair" >>, state |-> "repairing", clear |-> FALSE,
        prompt |-> "send_pdf_for_repair"],
       [data |-> << "ocr" >>, state |-> "ocr_processing", clear |-> FALSE,
        prompt |-> "send_pdf_for_ocr"],
       [data |-> << "jpg", "to", "pdf" >>, state |-> "collecting_images",
        clear |-> TRUE, prompt |-> "send_images"],
       [data |-> << "png", "to", "pdf" >>, state |-> "collecting_images",
        clear |-> TRUE, prompt |-> "send_images"],
       [data |-> << "convert" >>, state |-> "collecting_images",
        clear |-> TRUE, prompt |-> "send_images"],
       [data |-> << "word", "to", "pdf" >>, state |-> "word_to_pdf",
        clear |-> FALSE, prompt |-> "send_files"],
       [data |-> << "excel", "to", "pdf" >>, state |-> "excel_to_pdf",
        clear |-> FALSE, prompt |-> "send_files"],
       [data |-> << "powerpoint", "to", "pdf" >>, state |-> "powerpoint_to_pdf",
        clear |-> FALSE, prompt |-> "send_files"],
       [data |-> << "pdf", "to", "jpg" >>, state |-> "pdf_to_jpg",
        clear |-> FALSE, prompt |-> "send_one_pdf"],
       [data |-> << "pdf", "to", "word" >>, state |-> "pdf_to_word",
        clear |-> FALSE, prompt |-> "send_one_pdf"],
       [data |-> << "rotate" >>, state |-> "rotating", clear |-> FALSE,
        prompt |-> "send_pdf_for_rotate"],
       [data |-> << "add", "page", "numbers" >>, state |-> "adding_page_numbers",
        clear |-> FALSE, prompt |-> "send_one_pdf"],
       [data |-> << "watermark" >>, state |-> "adding_watermark",
        clear |-> FALSE, prompt |-> "send_pdf_for_watermark"],
       [data |-> << "unlock" >>, state |-> "unlocking", clear |-> FALSE,
        prompt |-> "send_pdf_for_unlock"],
       [data |-> << "protect" >>, state |-> "protecting", clear |-> FALSE,
        prompt |-> "send_pdf_for_protect"] >>

IsStart(data) == \E i \in 1..Len(StartTable) : StartTable[i].data = data

StartOf(data) == StartTable[CHOOSE i \in 1..Len(StartTable) : StartTable[i].data = data]

\* callbacks.py:208  handle_language_selection
handle_language_selection(u, data) ==
    /\ user_languages' = set_user_language(user_languages, u, data[2])
    /\ Say(u, "language_changed")
    /\ UNCHANGED << session, disk, tasks, calls, lastCall, staged >>

\* callbacks.py:38  back_to_menu
back_to_menu(u) ==
    /\ user_states' = clear_state(user_states, u)
    /\ staged' = [staged EXCEPT ![u] = << >>]
    /\ Say(u, "choose_action")
    /\ UNCHANGED << user_languages, user_files, user_temp_data, disk, tasks,
                    calls, lastCall >>

show_menu_clearing(u) ==
    /\ user_states' = clear_state(user_states, u)
    /\ Say(u, "choose_action")
    /\ UNCHANGED << user_languages, user_files, user_temp_data, disk, tasks,
                    calls, lastCall, staged >>

\* callbacks.py:47-80  the menu categories
show_menu(u) ==
    /\ Say(u, "choose_action")
    /\ UNCHANGED << user_languages, session, disk, tasks, calls, lastCall,
                    staged >>

\* callbacks.py:219-228, 283-380, 435-542  handle_<operation>_start
handle_start(u, data) ==
    /\ user_states' = set_state(user_states, u, StartOf(data).state)
    /\ user_files' = IF StartOf(data).clear THEN clear_files(user_files, u)
                     ELSE user_files
    /\ tasks' = IF StartOf(data).clear THEN Detach(tasks, u) ELSE tasks
    /\ staged' = [staged EXCEPT ![u] = << >>]
    /\ Say(u, StartOf(data).prompt)
    /\ UNCHANGED << user_languages, user_temp_data, disk, calls, lastCall >>

enough_to_merge_one(files) == ~(Len(files) < 1)

\* callbacks.py:235  the merge precondition
enough_to_merge(files) == ~(Len(files) < 2)

\* callbacks.py:387  the images precondition
enough_images(images) == images # << >>

\* callbacks.py:231-244 and :383-396  handle_do_merge and
\* handle_create_pdf_from_images, up to the await of the progress message
handle_finalize(u, op, enough, refusal, progress) ==
    /\ IF enough
       THEN /\ tasks' = Spawn(tasks, [NoTask EXCEPT !.kind = "button", !.op = op,
                                        !.uid = u, !.pc = "adapter",
                                        !.alias = TRUE])
            /\ Say(u, progress)
       ELSE /\ tasks' = tasks
            /\ Say(u, refusal)
    /\ UNCHANGED << user_languages, session, disk, calls, lastCall, staged >>

handle_do_merge(u) ==
    handle_finalize(u, "merge", enough_to_merge(get_files(user_files, u)),
                    "no_pdfs", "merging_pdfs")

handle_create_pdf_from_images(u) ==
    handle_finalize(u, "images_to_pdf", enough_images(get_files(user_files, u)),
                    "no_images", "creating_pdf")

\* callbacks.py:176-202  the subscriber list is an external collaborator
subscription(u) ==
    /\ \E key \in {"subscribed", "already_subscribed", "unsubscribed",
                   "not_subscribed"} : Say(u, key)
    /\ UNCHANGED << user_languages, session, disk, tasks, calls, lastCall,
                    staged >>

handle_coming_soon_resets(u) ==
    /\ Say(u, "coming_soon")
    /\ user_states' = clear_state(user_states, u)
    /\ UNCHANGED << user_languages, user_files, user_temp_data, disk, tasks,
                    calls, lastCall, staged >>

\* callbacks.py:545  handle_coming_soon
handle_coming_soon(u) ==
    /\ Say(u, "coming_soon")
    /\ UNCHANGED << user_languages, session, disk, tasks, calls, lastCall,
                    staged >>

\* callbacks.py:21-205  button_callback
button_callback(u, data) ==
    /\ nevents < MaxEvents
    /\ FreeSlots # {}
    /\ nevents' = nevents + 1
    /\ Flow(u, flow_after_button(u, data))
    /\ chosen' = IF startswith_lang(data) THEN [chosen EXCEPT ![u] = data[2]]
                  ELSE chosen
    /\ UNCHANGED << handed, lastOp >>
    /\ IF startswith_lang(data) THEN handle_language_selection(u, data)
       ELSE IF data = << "back", "to", "menu" >> THEN back_to_menu(u)
       ELSE IF data \in MenuButtons THEN show_menu(u)
       ELSE IF data = << "do", "merge" >> THEN handle_do_merge(u)
       ELSE IF data = << "create", "pdf", "from", "images" >>
            THEN handle_create_pdf_from_images(u)
       ELSE IF IsStart(data) THEN handle_start(u, data)
       ELSE IF data \in {<< "subscribe", "coming" >>, << "unsubscribe", "coming" >>}
            THEN subscription(u)
       ELSE handle_coming_soon(u)

\* handlers.py:73  cancel_command
cancel_command(u) ==
    /\ nevents < MaxEvents
    /\ FreeSlots # {}
    /\ nevents' = nevents + 1
    /\ user_states' = clear_state(user_states, u)
    /\ user_files' = clear_files(user_files, u)
    /\ tasks' = Detach(tasks, u)
    /\ staged' = [staged EXCEPT ![u] = << >>]
    /\ Say(u, "operation_cancelled")
    /\ Flow(u, "off")
    /\ UNCHANGED << user_languages, user_temp_data, disk, calls, lastCall,
                    chosen >>
    /\ UNCHANGED << handed, lastOp >>

\* handlers.py:30-70  start_command, help_command, language_command: they
\* read the language and answer
info_command(u, key) ==
    /\ nevents < MaxEvents
    /\ FreeSlots # {}
    /\ nevents' = nevents + 1
    /\ Say(u, key)
    /\ Flow(u, "off")
    /\ UNCHANGED << user_languages, session, disk, tasks, calls, lastCall,
                    staged, chosen >>
    /\ UNCHANGED << handed, lastOp >>

\* states.py:78 and :84, called from outside the handlers (no handler calls
\* them)
call_clear_temp(u) ==
    /\ nevents < MaxEvents
    /\ nevents' = nevents + 1
    /\ user_temp_data' = clear_temp(user_temp_data, u)
    /\ Flow(u, "off")
    /\ UNCHANGED << user_languages, user_states, user_files, disk, tasks,
                    reply, answered, calls, lastCall, staged, chosen, handed >>
    /\ lastOp' = [op |-> "clear_temp", uid |-> u, result |-> NonePath]

call_clear_all(u) ==
    /\ nevents < MaxEvents
    /\ nevents' = nevents + 1
    /\ clear_all(u)
    /\ tasks' = Detach(tasks, u)
    /\ staged' = [staged EXCEPT ![u] = << >>]
    /\ Flow(u, "off")
    /\ UNCHANGED << disk, reply, answered, calls, lastCall, chosen, handed >>
    /\ lastOp' = [op |-> "clear_all", uid |-> u, result |-> NonePath]

\* a direct call of one operation of the store (states.py:16-81): a read
\* leaves the four dicts as they are and its value is kept in lastOp.result
store_call(u, op, result) ==
    /\ nevents < MaxEvents
    /\ nevents' = nevents + 1
    /\ lastOp' = [op |-> op, uid |-> u, result |-> result]
    /\ Flow(u, "off")
    /\ UNCHANGED << disk, reply, answered, calls, lastCall, staged, chosen, handed >>

call_get_user_language(u) ==
    /\ store_call(u, "get_user_language",
                  << get_user_language(user_languages, u) >>)
    /\ UNCHANGED << user_languages, session, tasks >>

call_set_user_language(u, language) ==
    /\ store_call(u, "set_user_language", NonePath)
    /\ user_languages' = set_user_language(user_languages, u, language)
    /\ UNCHANGED << session, tasks >>

call_get_state(u) ==
    /\ store_call(u, "get_state", << get_state(user_states, u) >>)
    /\ UNCHANGED << user_languages, session, tasks >>

call_set_state(u, state) ==
    /\ store_call(u, "set_state", NonePath)
    /\ user_states' = set_state(user_states, u, state)
    /\ UNCHANGED << user_languages, user_files, user_temp_data, tasks >>

call_clear_state(u) ==
    /\ store_call(u, "clear_state", NonePath)
    /\ user_states' = clear_state(user_states, u)
    /\ UNCHANGED << user_languages, user_files, user_temp_data, tasks >>

call_get_files(u) ==
    /\ store_call(u, "get_files", get_files(user_files, u))
    /\ UNCHANGED << user_languages, session, tasks >>

call_add_file(u, file_path) ==
    /\ store_call(u, "add_file", NonePath)
    /\ user_files' = add_file(user_files, u, file_path)
    /\ UNCHANGED << user_languages, user_states, user_temp_data, tasks >>

call_clear_files(u) ==
    /\ store_call(u, "clear_files", NonePath)
    /\ user_files' = clear_files(user_files, u)
    /\ tasks' = Detach(tasks, u)
    /\ UNCHANGED << user_languages, user_states, user_temp_data >>

call_get_temp(u, key) ==
    /\ store_call(u, "get_temp", get_temp(user_temp_data, u, key))
    /\ UNCHANGED << user_languages, session, tasks >>

call_set_temp(u, key, value) ==
    /\ store_call(u, "set_temp", NonePath)
    /\ user_temp_data' = set_temp(user_temp_data, u, key, value)
    /\ UNCHANGED << user_languages, user_states, user_files, tasks >>

\* file_manager.py:41  cleanup_files called directly, on any list of paths
call_cleanup_files(file_paths) ==
    /\ nevents < MaxEvents
    /\ nevents' = nevents + 1
    /\ disk' = cleanup_files(disk, file_paths)
    /\ handed' = handed \cap DOMAIN disk'
    /\ lastOp' = [op |-> "cleanup_files", uid |-> 0, result |-> file_paths]
    /\ UNCHANGED << user_languages, session, tasks, reply, answered, calls, lastCall,
                    staged, flow, chosen, nphotos >>

(***************************************************************************)
(* Uploads and text, src/bot/handlers.py.                                  *)
(***************************************************************************)
Done(s) == tasks' = [tasks EXCEPT ![s] = NoTask]

Goto(s, t) == tasks' = [tasks EXCEPT ![s] = t]

\* handlers.py:143  the size check, on file_size in bytes
too_large_never(file_size) == FALSE

too_large(file_size) == file_size > MAX_FILE_SIZE_MB * BytesPerMB

\* handlers.py:136-159  handle_document, up to the await of the download
handle_document(u, file_name, file_size) ==
    /\ nevents < MaxEvents
    /\ FreeSlots # {}
    /\ nevents' = nevents + 1
    /\ IF too_large(file_size)
       THEN /\ Say(u, "file_too_large")
            /\ tasks' = tasks
       ELSE /\ tasks' = Spawn(tasks, [NoTask EXCEPT !.kind = "document",
                                        !.uid = u, !.pc = "download",
                                        !.state = get_state(user_states, u),
                                        !.path = download_path(file_name)])
            /\ reply' = reply /\ answered' = answered
    /\ Flow(u, IF too_large(file_size) THEN "off" ELSE flow_after_upload(u))
    /\ UNCHANGED << user_languages, session, disk, calls, lastCall, staged,
                    chosen, handed, lastOp >>

\* handlers.py:287-290 (and the same lines of each handle_*_document)
reject_non_pdf(s, t) ==
    /\ Say(t.uid, "send_pdf_only")
    /\ Goto(s, [t EXCEPT !.pc = "reject"])
    /\ UNCHANGED << session, staged >>

\* handlers.py:282  handle_merge_document
handle_merge_document(s, t) ==
    IF ~is_pdf_name(t.path) THEN reject_non_pdf(s, t)
    ELSE /\ user_files' = add_file(user_files, t.uid, t.path)
         /\ staged' = [staged EXCEPT ![t.uid] = Append(@, t.path)]
         /\ Say(t.uid, "pdfs_count")
         /\ Done(s)
         /\ UNCHANGED << user_states, user_temp_data >>

handle_scalar_document_keeps_state(s, t, next_state, prompt) ==
    IF ~is_pdf_name(t.path) THEN reject_non_pdf(s, t)
    ELSE /\ user_temp_data' = set_temp(user_temp_data, t.uid, "pdf_path", t.path)
         /\ Say(t.uid, prompt)
         /\ Done(s)
         /\ UNCHANGED << user_states, user_files, staged >>

\* handlers.py:303-406  handle_compress_document, handle_rotate_document,
\* handle_unlock_document, handle_protect_document,
\* handle_extract_pages_document, handle_remove_pages_document
handle_scalar_document(s, t, next_state, prompt) ==
    IF ~is_pdf_name(t.path) THEN reject_non_pdf(s, t)
    ELSE /\ user_temp_data' = set_temp(user_temp_data, t.uid, "pdf_path", t.path)
         /\ user_states' = set_state(user_states, t.uid, next_state)
         /\ Say(t.uid, prompt)
         /\ Done(s)
         /\ UNCHANGED << user_files, staged >>

\* handlers.py:409  handle_watermark_document
handle_watermark_document(s, t) ==
    IF ~is_pdf_name(t.path) THEN reject_non_pdf(s, t)
    ELSE /\ user_temp_data' = set_temp(user_temp_data, t.uid, "pdf_path", t.path)
         /\ Say(t.uid, "send_watermark_image")
         /\ Done(s)
         /\ UNCHANGED << user_states, user_files, staged >>

\* a handler that goes on to its adapter, after the progress message
to_adapter(s, t, op, progress) ==
    /\ Say(t.uid, progress)
    /\ Goto(s, [t EXCEPT !.op = op, !.pc = "adapter"])
    /\ UNCHANGED << session, staged >>

\* handlers.py:455-465  handle_page_numbers_document
handle_page_numbers_document(s, t) ==
    IF ~is_pdf_name(t.path) THEN reject_non_pdf(s, t)
    ELSE to_adapter(s, t, "page_numbers", "adding_page_numbers")

\* handlers.py:153-191  handle_document, from the end of the download: the
\* dispatch is on the state read before it
document_downloaded(s) ==
    LET t == tasks[s] IN
    /\ t.kind = "document" /\ t.pc = "download"
    /\ disk' = write_file(disk, t.path, t.uid)
    /\ CASE t.state = "merging" -> handle_merge_document(s, t)
         [] t.state = "compressing" ->
                handle_scalar_document(s, t, "compressing_wait_level",
                                       "enter_compression_level")
         [] t.state = "rotating" ->
                handle_scalar_document(s, t, "rotating_wait_angle", "enter_rotation")
         [] t.state = "unlocking" ->
                handle_scalar_document(s, t, "unlocking_wait_password",
                                       "enter_password")
         [] t.state = "protecting" ->
                handle_scalar_document(s, t, "protecting_wait_password",
                                       "enter_new_password")
         [] t.state = "extracting_pages" ->
                handle_scalar_document(s, t, "extracting_pages_wait_spec",
                                       "enter_pages")
         [] t.state = "removing_pages" ->
                handle_scalar_document(s, t, "removing_pages_wait_spec",
                                       "enter_pages")
         [] t.state = "adding_watermark" -> handle_watermark_document(s, t)
         [] t.state = "adding_page_numbers" -> handle_page_numbers_document(s, t)
         [] OTHER -> to_adapter(s, t, "convert_document", "converting")
    /\ Flow(t.uid, IF user_files' = user_files THEN "off" ELSE flow[t.uid])
    /\ handed' = handed \ {t.path}
    /\ UNCHANGED << user_languages, calls, lastCall, nevents, chosen, lastOp >>

\* handlers.py:289 (and :310 ... :462)  cleanup_files([file_path]) after the
\* refusal has been sent
reject_cleanup(s) ==
    LET t == tasks[s] IN
    /\ t.pc = "reject"
    /\ disk' = cleanup_files(disk, << t.path >>)
    /\ Done(s)
    /\ handed' = handed \cap DOMAIN disk'
    /\ UNCHANGED << user_languages, session, reply, answered, calls, lastCall, staged,
                    nevents, flow, chosen, nphotos, lastOp >>

\* handlers.py:198-213  handle_photo, up to the await of the download
handle_photo(u) ==
    /\ nevents < MaxEvents
    /\ FreeSlots # {}
    /\ nevents' = nevents + 1
    /\ tasks' = Spawn(tasks, [NoTask EXCEPT !.kind = "photo", !.uid = u,
                                !.pc = "download",
                                !.state = get_state(user_states, u),
                                !.path = download_path(
                                    image_name(u, Len(get_files(user_files, u))))])
    /\ FlowPhoto(u)
    /\ UNCHANGED << user_languages, session, disk, reply, answered, calls, lastCall,
                    staged, chosen, handed, lastOp >>

\* handlers.py:227  "and state_manager.get_temp(user_id, 'pdf_path')"
truthy(value) == value # NonePath /\ value # << >>

\* handlers.py:207-233  handle_photo, from the end of the download
photo_downloaded(s) ==
    LET t == tasks[s] IN
    /\ t.kind = "photo" /\ t.pc = "download"
    /\ disk' = write_file(disk, t.path, t.uid)
    /\ IF t.state = "collecting_images"
       THEN /\ user_files' = add_file(user_files, t.uid, t.path)
            /\ staged' = [staged EXCEPT ![t.uid] = Append(@, t.path)]
            /\ Say(t.uid, "images_count")
            /\ Done(s)
            /\ UNCHANGED << user_states, user_temp_data >>
       ELSE IF /\ t.state = "adding_watermark"
               /\ truthy(get_temp(user_temp_data, t.uid, "pdf_path"))
       THEN to_adapter(s, [t EXCEPT !.pdf = get_temp(user_temp_data, t.uid,
                                                     "pdf_path")],
                       "watermark", "adding_watermark")
       ELSE to_adapter(s, t, "convert_image", "converting")
    /\ handed' = handed \ {t.path}
    /\ UNCHANGED << user_languages, calls, lastCall, nevents, flow, chosen,
                    nphotos, lastOp >>

valid_angle_multiple_of_45(angle) == angle > 0 /\ angle % 45 = 0

\* handlers.py:554 and :708  the accepted values
valid_angle(angle) == angle \in {90, 180, 270}

valid_level(level_num) == level_num \in {1, 2, 3}

quality_of_medium(level_num) == "medium"

\* handlers.py:712  ["low", "medium", "high"][level_num - 1]
quality_of(level_num) == << "low", "medium", "high" >>[level_num]

\* a text handler that goes on to its adapter with the pending pdf_path
text_to_adapter(u, op, progress, angle, text) ==
    /\ tasks' = Spawn(tasks, [NoTask EXCEPT !.kind = "text", !.op = op,
                                !.uid = u, !.pc = "adapter",
                                !.state = get_state(user_states, u),
                                !.path = get_temp(user_temp_data, u, "pdf_path"),
                                !.angle = angle, !.text = text])
    /\ Say(u, progress)

text_only_error(u, key) ==
    /\ tasks' = tasks
    /\ Say(u, "error")

text_only(u, key) ==
    /\ tasks' = tasks
    /\ Say(u, key)

\* handlers.py:547-559  handle_rotation_angle, up to the progress message
handle_rotation_angle(u, text) ==
    IF int_raises(text) THEN text_only(u, "invalid_rotation")
    ELSE IF ~valid_angle(int(text)) THEN text_only(u, "invalid_rotation")
    ELSE text_to_adapter(u, "rotate", "rotating_pdf", int(text), << >>)

\* handlers.py:701-717  handle_compression_level, up to the progress message
handle_compression_level(u, level) ==
    IF int_raises(level) THEN text_only(u, "enter_1_2_or_3")
    ELSE IF ~valid_level(int(level)) THEN text_only(u, "enter_1_2_or_3")
    ELSE text_to_adapter(u, "compress", "compressing_pdf", 0,
                         << quality_of(int(level)) >>)

\* handlers.py:240-277  handle_text
handle_text(u, text) ==
    /\ nevents < MaxEvents
    /\ FreeSlots # {}
    /\ nevents' = nevents + 1
    /\ CASE get_state(user_states, u) = "rotating_wait_angle" ->
                handle_rotation_angle(u, text)
         [] get_state(user_states, u) = "unlocking_wait_password" ->
                text_to_adapter(u, "unlock", "unlocking_pdf", 0, text)
         [] get_state(user_states, u) = "protecting_wait_password" ->
                text_to_adapter(u, "protect", "protecting_pdf", 0, text)
         [] get_state(user_states, u) = "extracting_pages_wait_spec" ->
                text_to_adapter(u, "extract_pages", "extracting_pages", 0, text)
         [] get_state(user_states, u) = "removing_pages_wait_spec" ->
                text_to_adapter(u, "remove_pages", "removing_pages", 0, text)
         [] get_state(user_states, u) = "compressing_wait_level" ->
                handle_compression_level(u, text)
         [] OTHER -> text_only(u, "choose_action")
    /\ Flow(u, "off")
    /\ UNCHANGED << user_languages, session, disk, calls, lastCall, staged,
                    chosen, handed, lastOp >>

(***************************************************************************)
(* The adapter call and what follows it, in every terminal handler:        *)
(*   try: output_path = await <adapter>(...); send it; send the            *)
(*        confirmation; cleanup_files(...); clear_state(...)               *)
(*   except Exception: send the error message [; cleanup_files(...)]       *)
(***************************************************************************)
\* the confirmation sent after the output
success_reply(op) ==
    CASE op = "rotate" -> "pdf_rotated"
      [] op = "compress" -> "pdf_compressed"
      [] op = "unlock" -> "pdf_unlocked"
      [] op = "protect" -> "pdf_protected"
      [] op = "watermark" -> "watermark_added"
      [] op = "page_numbers" -> "page_numbers_added"
      [] OTHER -> "success"

failure_reply_generic(op) == "error"

\* the message of the except branch
failure_reply(op) ==
    CASE op = "unlock" -> "password_incorrect"
      [] op \in {"extract_pages", "remove_pages"} -> "invalid_pages"
      [] OTHER -> "error"

\* the list given to cleanup_files at the end of the try branch
success_cleanup(t) ==
    IF t.op \in ListOps THEN TaskFiles(t) \o << t.out >>
    ELSE IF t.op = "watermark" THEN << t.pdf, t.path, t.out >>
    ELSE << t.path, t.out >>

failure_cleanup_none(t) == << >>

\* the list given to cleanup_files in the except branch
failure_cleanup(t) ==
    IF t.op = "watermark" THEN << t.pdf, t.path >>
    ELSE IF t.op \in UploadOps THEN << t.path >>
    ELSE << >>

\* whether the try branch ends with clear_state / clear_files
success_clears_state(op) == op \notin {"convert_document", "convert_image"}

success_clears_files(op) == op \in ListOps

adapter_raised_silent(s, t) ==
    /\ disk' = disk
    /\ IF failure_cleanup(t) # << >>
       THEN Goto(s, [t EXCEPT !.pc = "failed"])
       ELSE Done(s)
    /\ reply' = reply /\ answered' = answered
    /\ Flow(t.uid, "off")

\* the except branch, up to the await of the error message
adapter_raised(s, t) ==
    /\ disk' = disk
    /\ IF failure_cleanup(t) # << >>
       THEN Goto(s, [t EXCEPT !.pc = "failed"])
       ELSE Done(s)
    /\ Say(t.uid, failure_reply(t.op))
    /\ Flow(t.uid, "off")

run_adapter(s, ok) ==
    LET t == tasks[s] IN
    /\ t.pc = "adapter"
    /\ ok => adapter_can_succeed(t)
    /\ calls' = calls + 1
    /\ lastCall' = [op |-> t.op, uid |-> t.uid, inputs |-> adapter_inputs(t),
                    angle |-> t.angle, text |-> t.text, ok |-> ok,
                    again |-> SetOf(adapter_inputs(t)) \cap handed # {}]
    /\ handed' = (handed \cup SetOf(adapter_inputs(t))) \cap DOMAIN disk
    /\ IF ok
       THEN /\ disk' = IF exists(disk, adapter_output(t)) /\ t.op = "convert_document"
                       THEN disk
                       ELSE write_file(disk, adapter_output(t), t.uid)
            /\ Goto(s, [t EXCEPT !.pc = "sent", !.inputs = adapter_inputs(t),
                                  !.out = adapter_output(t)])
            /\ Say(t.uid, success_reply(t.op))
            /\ flow' = flow /\ nphotos' = nphotos
       ELSE adapter_raised(s, t)
    /\ UNCHANGED << user_languages, session, staged, nevents, chosen, lastOp >>

finish(s) ==
    LET t == tasks[s] IN
    /\ t.pc = "sent"
    /\ disk' = cleanup_files(disk, success_cleanup(t))
    /\ user_states' = IF success_clears_state(t.op)
                      THEN clear_state(user_states, t.uid) ELSE user_states
    /\ user_files' = IF success_clears_files(t.op)
                     THEN clear_files(user_files, t.uid) ELSE user_files
    /\ tasks' = [(IF success_clears_files(t.op) THEN Detach(tasks, t.uid)
                  ELSE tasks) EXCEPT ![s] = NoTask]
    /\ staged' = IF success_clears_state(t.op)
                 THEN [staged EXCEPT ![t.uid] = << >>] ELSE staged
    /\ Flow(t.uid, IF t.op = "merge" /\ flow[t.uid] = "do_merge" THEN "merged"
                   ELSE "off")
    /\ handed' = handed \cap DOMAIN disk'
    /\ UNCHANGED << user_languages, user_temp_data, reply, answered, calls, lastCall,
                    nevents, chosen, lastOp >>

failed_cleanup(s) ==
    LET t == tasks[s] IN
    /\ t.pc = "failed"
    /\ disk' = cleanup_files(disk, failure_cleanup(t))
    /\ Done(s)
    /\ handed' = handed \cap DOMAIN disk'
    /\ UNCHANGED << user_languages, session, reply, answered, calls, lastCall, staged,
                    nevents, flow, chosen, nphotos, lastOp >>

(***************************************************************************)
(* The updates the environment sends.                                      *)
(***************************************************************************)
Buttons ==
    {<< "lang", "en" >>, << "lang", "fa" >>, << "back", "to", "menu" >>,
     << "do", "merge" >>, << "create", "pdf", "from", "images" >>,
     << "subscribe", "coming" >>, << "crop" >>}
    \cup MenuButtons
    \cup {StartTable[i].data : i \in 1..Len(StartTable)}

DocNames ==
    {<< "a", ".", "p", "d", "f" >>, << "b", ".", "P", "D", "F" >>,
     << "c", ".", "t", "x", "t" >>}

FileSizes == {1, MAX_FILE_SIZE_MB * BytesPerMB, MAX_FILE_SIZE_MB * BytesPerMB + 1}

InfoReplies == {"welcome", "help", "choose_language"}

Texts ==
    {<< "9", "0" >>, << " ", "1", "8", "0", " " >>, << "4", "5" >>, << "2" >>,
     << "a", "b" >>, << >>}

Init ==
    /\ user_languages = EmptyDict
    /\ user_states = EmptyDict
    /\ user_files = EmptyDict
    /\ user_temp_data = EmptyDict
    /\ disk = EmptyDict
    /\ tasks = [s \in Slots |-> NoTask]
    /\ reply = [u \in Users |-> "none"]
    /\ answered = 0
    /\ calls = 0
    /\ lastCall = NoCall
    /\ nevents = 0
    /\ staged = [u \in Users |-> << >>]
    /\ flow = [u \in Users |-> "off"]
    /\ chosen = [u \in Users |-> "unset"]
    /\ nphotos = [u \in Users |-> 0]
    /\ handed = {}
    /\ lastOp = [op |-> "none", uid |-> 0, result |-> NonePath]

\* polling mode (main.py:171 run_polling): the application handles one update
\* at a time, the next one once the handler of the last has returned
Idle == \A s \in Slots : tasks[s] = NoTask

Chat == {1}

Next ==
    \/ Idle /\ \E u \in Chat, data \in Buttons : button_callback(u, data)
    \/ Idle /\ \E u \in Chat : cancel_command(u)
    \/ Idle /\ \E u \in Chat, key \in InfoReplies : info_command(u, key)
    \/ Idle /\ \E u \in Chat, n \in DocNames, z \in FileSizes :
                    handle_document(u, n, z)
    \/ Idle /\ \E u \in Chat : handle_photo(u)
    \/ Idle /\ \E u \in Chat, text \in Texts : handle_text(u, text)
    \/ \E s \in Slots : document_downloaded(s)
    \/ \E s \in Slots : photo_downloaded(s)
    \/ \E s \in Slots : reject_cleanup(s)
    \/ \E s \in Slots, ok \in BOOLEAN : run_adapter(s, ok)
    \/ \E s \in Slots : finish(s)
    \/ \E s \in Slots : failed_cleanup(s)

Spec == Init /\ [][Next]_vars

\* the same, with the store's clear_temp and clear_all called between updates
NextStore ==
    \/ Next
    \/ Idle /\ \E u \in Chat : call_clear_temp(u)
    \/ Idle /\ \E u \in Chat : call_clear_all(u)

SpecStore == Init /\ [][NextStore]_vars

\* webhook mode (main.py:104): one coroutine per update, interleaving at the
\* awaits; two users in the merge flow
MergeButtons == {<< "merge" >>, << "do", "merge" >>}

NextWebhookMerge ==
    \/ \E u \in Users, data \in MergeButtons : button_callback(u, data)
    \/ \E u \in Users : cancel_command(u)
    \/ \E u \in Users, n \in DocNames : handle_document(u, n, 1)
    \/ \E s \in Slots : document_downloaded(s)
    \/ \E s \in Slots : reject_cleanup(s)
    \/ \E s \in Slots, ok \in BOOLEAN : run_adapter(s, ok)
    \/ \E s \in Slots : finish(s)
    \/ \E s \in Slots : failed_cleanup(s)

SpecWebhookMerge == Init /\ [][NextWebhookMerge]_vars

\* webhook mode, two users collecting images
PhotoButtons == {<< "jpg", "to", "pdf" >>, << "create", "pdf", "from", "images" >>}

NextWebhookPhotos ==
    \/ \E u \in Users, data \in PhotoButtons : button_callback(u, data)
    \/ \E u \in Users : handle_photo(u)
    \/ \E s \in Slots : photo_downloaded(s)
    \/ \E s \in Slots, ok \in BOOLEAN : run_adapter(s, ok)
    \/ \E s \in Slots : finish(s)
    \/ \E s \in Slots : failed_cleanup(s)

SpecWebhookPhotos == Init /\ [][NextWebhookPhotos]_vars

\* webhook mode, from the state SpecWebhookPhotos reaches once both users
\* have pressed "jpg_to_pdf" and had one photo stored (handlers.py:215-218);
\* nevents counts the updates that follow
InitBothCollecting ==
    /\ user_languages = EmptyDict
    /\ user_states = [u \in Users |-> "collecting_images"]
    /\ user_files = [u \in Users |-> << download_path(image_name(u, 0)) >>]
    /\ user_temp_data = EmptyDict
    /\ disk = [p \in {download_path(image_name(u, 0)) : u \in Users} |->
                 CHOOSE u \in Users : p = download_path(image_name(u, 0))]
    /\ tasks = [s \in Slots |-> NoTask]
    /\ reply = [u \in Users |-> "images_count"]
    /\ answered = 4
    /\ calls = 0
    /\ lastCall = NoCall
    /\ nevents = 0
    /\ staged = [u \in Users |-> << download_path(image_name(u, 0)) >>]
    /\ flow = [u \in Users |-> "images"]
    /\ chosen = [u \in Users |-> "unset"]
    /\ nphotos = [u \in Users |-> 1]
    /\ handed = {}
    /\ lastOp = [op |-> "none", uid |-> 0, result |-> NonePath]

SpecWebhookFinalize == InitBothCollecting /\ [][NextWebhookPhotos]_vars

\* the store on its own: any caller, any order of its operations
Languages == {"en", "fa"}
StoreStates == {"merging", "rotating_wait_angle"}
StorePaths == {download_path(n) : n \in DocNames}
StoreKeys == {"pdf_path", "original_name"}

NextStoreApi ==
    \/ \E u \in Users : call_get_user_language(u)
    \/ \E u \in Users, language \in Languages : call_set_user_language(u, language)
    \/ \E u \in Users : call_get_state(u)
    \/ \E u \in Users, state \in StoreStates : call_set_state(u, state)
    \/ \E u \in Users : call_clear_state(u)
    \/ \E u \in Users : call_get_files(u)
    \/ \E u \in Users, file_path \in StorePaths : call_add_file(u, file_path)
    \/ \E u \in Users : call_clear_files(u)
    \/ \E u \in Users, key \in StoreKeys : call_get_temp(u, key)
    \/ \E u \in Users, key \in StoreKeys, value \in StorePaths :
            call_set_temp(u, key, value)
    \/ \E u \in Users : call_clear_temp(u)
    \/ \E u \in Users : call_clear_all(u)

SpecStoreApi == Init /\ [][NextStoreApi]_vars

\* webhook mode, two users: the updates of the merge flow interleaved with
\* direct calls of the store's writing operations
SessionName == << "a", ".", "p", "d", "f" >>

NextSessions ==
    \/ \E u \in Users, data \in MergeButtons : button_callback(u, data)
    \/ \E u \in Users : cancel_command(u)
    \/ \E u \in Users : handle_document(u, SessionName, 1)
    \/ \E s \in Slots : document_downloaded(s)
    \/ \E s \in Slots, ok \in BOOLEAN : run_adapter(s, ok)
    \/ \E s \in Slots : finish(s)
    \/ \E s \in Slots : failed_cleanup(s)
    \/ \E u \in Users : call_set_user_language(u, "fa")
    \/ \E u \in Users : call_set_state(u, "merging")
    \/ \E u \in Users : call_clear_state(u)
    \/ \E u \in Users : call_add_file(u, download_path(SessionName))
    \/ \E u \in Users : call_clear_files(u)
    \/ \E u \in Users : call_set_temp(u, "pdf_path", download_path(SessionName))
    \/ \E u \in Users : call_clear_temp(u)
    \/ \E u \in Users : call_clear_all(u)

SpecSessions == Init /\ [][NextSessions]_vars

\* polling mode in the merge flow, with cleanup_files called between the
\* updates on lists of staged, deleted, absent, empty and None paths
CleanupPaths ==
    {download_path(n) : n \in DocNames} \cup {NonePath, << >>}

CleanupLists ==
    {<< >>} \cup {<< p >> : p \in CleanupPaths}
            \cup {<< p, q >> : p \in CleanupPaths, q \in CleanupPaths}

NextCleanup ==
    \/ Idle /\ \E u \in Chat, data \in MergeButtons : button_callback(u, data)
    \/ Idle /\ \E u \in Chat, n \in DocNames : handle_document(u, n, 1)
    \/ Idle /\ \E file_paths \in CleanupLists : call_cleanup_files(file_paths)
    \/ \E s \in Slots : document_downloaded(s)
    \/ \E s \in Slots : reject_cleanup(s)
    \/ \E s \in Slots, ok \in BOOLEAN : run_adapter(s, ok)
    \/ \E s \in Slots : finish(s)
    \/ \E s \in Slots : failed_cleanup(s)

SpecCleanup == Init /\ [][NextCleanup]_vars

\* polling mode in the compress flow, with the level texts
LevelTexts ==
    {<< "1" >>, << "2" >>, << " ", "3", " " >>, << "4" >>, << "0" >>,
     << "-", "1" >>, << "1", ".", "5" >>, << "l", "o", "w" >>, << >>}

NextCompress ==
    \/ Idle /\ \E u \in Chat : button_callback(u, << "compress" >>)
    \/ Idle /\ \E u \in Chat, n \in DocNames : handle_document(u, n, 1)
    \/ Idle /\ \E u \in Chat, text \in LevelTexts : handle_text(u, text)
    \/ \E s \in Slots : document_downloaded(s)
    \/ \E s \in Slots : reject_cleanup(s)
    \/ \E s \in Slots, ok \in BOOLEAN : run_adapter(s, ok)
    \/ \E s \in Slots : finish(s)
    \/ \E s \in Slots : failed_cleanup(s)

SpecCompress == Init /\ [][NextCompress]_vars

\* polling mode without the navigation buttons: operation starts, uploads
\* and texts
StartButtons == {StartTable[i].data : i \in 1..Len(StartTable)}

NextText ==
    \/ Idle /\ \E u \in Chat, data \in StartButtons : button_callback(u, data)
    \/ Idle /\ \E u \in Chat, n \in DocNames : handle_document(u, n, 1)
    \/ Idle /\ \E u \in Chat, text \in Texts : handle_text(u, text)
    \/ \E s \in Slots : document_downloaded(s)
    \/ \E s \in Slots : reject_cleanup(s)
    \/ \E s \in Slots, ok \in BOOLEAN : run_adapter(s, ok)
    \/ \E s \in Slots : finish(s)
    \/ \E s \in Slots : failed_cleanup(s)

SpecText == Init /\ [][NextText]_vars

(***************************************************************************)
(* The properties checked.                                                 *)
(***************************************************************************)

\* C1: after merge-start, n >= 2 accepted PDF uploads and execute-merge, with
\* no other update of that user in between (each sent once the handler of the
\* one before has returned), the merge adapter is called with exactly those n
\* files in upload order; once the merge has succeeded the user's state is
\* idle and the file list is empty.
C1_MergeInUploadOrder ==
    \A u \in Users :
        /\ (flow[u] = "do_merge" /\ Len(staged[u]) >= 2) =>
              \E s \in Slots :
                  /\ tasks[s].uid = u /\ tasks[s].op = "merge"
                  /\ tasks[s].pc \in {"adapter", "sent"}
                  /\ tasks[s].pc = "adapter" => adapter_inputs(tasks[s]) = staged[u]
                  /\ tasks[s].pc = "sent" => tasks[s].inputs = staged[u]
        /\ flow[u] = "merged" =>
              /\ get_state(user_states, u) = None
              /\ get_files(user_files, u) = << >>

C1_Witness ==
    \E u \in Users :
        /\ flow[u] = "merged"
        /\ lastCall.uid = u /\ lastCall.op = "merge" /\ lastCall.ok
        /\ Len(lastCall.inputs) = 2
        /\ lastCall.inputs[1] # lastCall.inputs[2]

\* the paths a user's session refers to: the file list and the params
Refs(u) ==
    {get_files(user_files, u)[i] : i \in 1..Len(get_files(user_files, u))}
    \cup (IF u \in DOMAIN user_temp_data
          THEN {user_temp_data[u][k] : k \in DOMAIN user_temp_data[u]}
          ELSE {})

\* the user's handler that made the last adapter call has returned, and its
\* outcome message is the last thing the user was sent
AfterCallOf(u) ==
    /\ calls > 0 /\ lastCall.uid = u /\ ~Busy(u)
    /\ reply[u] = IF lastCall.ok THEN success_reply(lastCall.op)
                  ELSE failure_reply(lastCall.op)

\* C2: whenever an Operation Adapter call fails (merge, images-to-PDF, rotate,
\* compress, protect, extract-pages, remove-pages, watermark, page-numbers,
\* default conversion) the user gets an error response, the user's state
\* becomes idle and every staged input file of the operation is deleted.
C2_FailureResetsSession ==
    \A u \in Users :
        (AfterCallOf(u) /\ ~lastCall.ok /\ lastCall.op # "unlock") =>
            /\ reply[u] \in {"error", "invalid_pages"}
            /\ get_state(user_states, u) = None
            /\ \A i \in 1..Len(lastCall.inputs) : ~exists(disk, lastCall.inputs[i])

\* C3: after any terminal operation of a user finishes, whether it succeeded
\* or failed, that user's file list is empty and that user's params are empty.
C3_TerminalLeavesNothing ==
    \A u \in Users :
        AfterCallOf(u) =>
            /\ get_files(user_files, u) = << >>
            /\ u \in DOMAIN user_temp_data => DOMAIN user_temp_data[u] = {}

\* C4: a staged file belongs to exactly one session: no path is referenced by
\* the files/params of two users, and a file a user's session refers to is
\* never overwritten by another user's upload.
C4_StagedFileHasOneOwner ==
    \A u \in Users :
        /\ \A v \in Users \ {u} : Refs(u) \cap Refs(v) = {}
        /\ \A path \in Refs(u) : exists(disk, path) => disk[path] = u

\* C5: execute-merge with fewer than 2 files, and finalize-images with 0
\* files, never invokes the adapter (no handler goes on to it) and leaves the
\* user's state tag and file list unchanged.
C5_FinalizeNeedsInput ==
    [][\A u \in Users :
        /\ ( /\ button_callback(u, << "do", "merge" >>)
             /\ Len(get_files(user_files, u)) < 2 ) =>
                /\ tasks' = tasks /\ calls' = calls
                /\ user_states' = user_states /\ user_files' = user_files
        /\ ( /\ button_callback(u, << "create", "pdf", "from", "images" >>)
             /\ Len(get_files(user_files, u)) = 0 ) =>
                /\ tasks' = tasks /\ calls' = calls
                /\ user_states' = user_states /\ user_files' = user_files
      ]_vars

C5_Witness ==
    /\ reply[1] = "no_pdfs"
    /\ get_state(user_states, 1) = "merging"
    /\ Len(get_files(user_files, 1)) = 1
    /\ Idle

\* the uploads of the model whose name does not end in .pdf
NotPdfPaths == {download_path(<< "c", ".", "t", "x", "t" >>)}

\* C6: a document whose name does not end in .pdf, uploaded while the user's
\* state is merging, is rejected: it is not appended, the user's state, file
\* list and params are unchanged, and the downloaded file is deleted.
C6_NonPdfRejectedWhileMerging ==
    [][\A s \in Slots :
        (tasks[s].state = "merging" /\ tasks[s].path \in NotPdfPaths) =>
            /\ document_downloaded(s) =>
                  /\ session' = session
                  /\ tasks'[s] = [tasks[s] EXCEPT !.pc = "reject"]
                  /\ reply'[tasks[s].uid] = "send_pdf_only"
            /\ reject_cleanup(s) =>
                  /\ session' = session
                  /\ ~exists(disk', tasks[s].path)
      ]_vars

C6_Witness ==
    \E u \in Users :
        /\ reply[u] = "send_pdf_only"
        /\ ~Busy(u)
        /\ get_state(user_states, u) = "merging"
        /\ Len(get_files(user_files, u)) = 1
        /\ \A path \in NotPdfPaths : ~exists(disk, path)

\* the texts of the model that denote 90, 180 or 270
AngleTexts == {<< "9", "0" >>, << " ", "1", "8", "0", " " >>}

\* C7: in state rotating_wait_angle, a text that is not an integer of
\* {90, 180, 270} never invokes the rotate adapter: the user is re-prompted,
\* the state stays rotating_wait_angle, the staged PDF stays referenced and
\* on disk.
C7_BadAngleReprompts ==
    [][\A u \in Users, text \in Texts \ AngleTexts :
        ( /\ handle_text(u, text)
          /\ get_state(user_states, u) = "rotating_wait_angle" ) =>
            /\ tasks' = tasks /\ calls' = calls
            /\ reply'[u] = "invalid_rotation"
            /\ session' = session
            /\ disk' = disk
      ]_vars

C7_Witness ==
    /\ reply[1] = "invalid_rotation"
    /\ get_state(user_states, 1) = "rotating_wait_angle"
    /\ exists(disk, get_temp(user_temp_data, 1, "pdf_path"))
    /\ Idle

\* C8: in state rotating_wait_angle, a text that denotes 90, 180 or 270
\* invokes the rotate adapter with that angle and the staged PDF, and the
\* session is idle once the handler has returned.
C8_ValidAngleRotatesThenIdle ==
    \A u \in Users :
        /\ \A s \in Slots :
              (tasks[s].uid = u /\ tasks[s].op = "rotate") =>
                  /\ tasks[s].angle \in {90, 180, 270}
                  /\ tasks[s].pc = "adapter" =>
                        tasks[s].path = get_temp(user_temp_data, u, "pdf_path")
        /\ (AfterCallOf(u) /\ lastCall.op = "rotate") =>
              get_state(user_states, u) = None

\* C9: a language-selection button press, in whatever state the session is,
\* sets the user's language to the selected code and leaves the state tag
\* idle.
C9_LanguageButtonResets ==
    [][\A u \in Users, data \in {<< "lang", "en" >>, << "lang", "fa" >>} :
        button_callback(u, data) =>
            /\ get_user_language(user_languages', u) = data[2]
            /\ get_state(user_states', u) = None
      ]_vars

\* C10: the language set by a language button is returned by every later
\* lookup until the next language button, whatever else happens (operation
\* start, uploads, terminal operations, /cancel, clear_temp, clear_all); a
\* user who never set one gets the default.
C10_LanguageIndependent ==
    \A u \in Users :
        get_user_language(user_languages, u) =
            IF chosen[u] = "unset" THEN "en" ELSE chosen[u]

C10_Witness ==
    /\ chosen[1] = "fa"
    /\ AfterCallOf(1) /\ lastCall.ok /\ lastCall.op = "rotate"
    /\ get_state(user_states, 1) = None
    /\ get_user_language(user_languages, 1) = "fa"
    /\ get_user_language(user_languages, 2) = "en"

\* C11: navigation button presses (the five menu categories and back-to-menu)
\* leave the user's state tag unchanged.
C11_NavigationKeepsState ==
    [][\A u \in Users, data \in MenuButtons \cup {<< "back", "to", "menu" >>} :
        button_callback(u, data) =>
            get_state(user_states', u) = get_state(user_states, u)
      ]_vars

\* C11, as the code has it: the five menu categories leave the session as it
\* is; back-to-menu sets the state tag to idle and leaves the file list and
\* the params as they are.
C11_MenusKeepStateBackClearsIt ==
    [][\A u \in Users :
        /\ \A data \in MenuButtons :
              button_callback(u, data) => session' = session
        /\ button_callback(u, << "back", "to", "menu" >>) =>
              /\ get_state(user_states', u) = None
              /\ user_files' = user_files
              /\ user_temp_data' = user_temp_data
      ]_vars

C11_Witness ==
    /\ reply[1] = "choose_action"
    /\ get_state(user_states, 1) = None
    /\ Len(get_files(user_files, 1)) = 1
    /\ exists(disk, get_files(user_files, 1)[1])
    /\ Idle

\* C12: every operation-start button press, from any prior session state,
\* leaves the user's file list empty and the user's state equal to that
\* operation's waiting-for-input tag.
C12_StartClearsFilesAndSetsState ==
    [][\A u \in Users, i \in 1..Len(StartTable) :
        button_callback(u, StartTable[i].data) =>
            /\ get_files(user_files', u) = << >>
            /\ get_state(user_states', u) = StartTable[i].state
      ]_vars

\* C13: when the unlock adapter fails, the user gets the incorrect-password
\* response, the state stays unlocking_wait_password and the staged PDF stays
\* referenced and on disk; a later password is tried on the same file, and
\* the session is idle only once an unlock has succeeded.
C13_WrongPasswordAllowsRetry ==
    /\ [][\A s \in Slots :
            (tasks[s].op = "unlock" /\ run_adapter(s, FALSE)) =>
                /\ reply'[tasks[s].uid] = "password_incorrect"
                /\ tasks'[s] = NoTask
                /\ session' = session
                /\ disk' = disk
         ]_vars
    /\ [](\A u \in Users :
            /\ \A s \in Slots :
                  (tasks[s].uid = u /\ tasks[s].op = "unlock"
                   /\ tasks[s].pc = "adapter") =>
                      /\ tasks[s].state = "unlocking_wait_password"
                      /\ tasks[s].path = get_temp(user_temp_data, u, "pdf_path")
            /\ (AfterCallOf(u) /\ lastCall.op = "unlock") =>
                  IF lastCall.ok
                  THEN /\ get_state(user_states, u) = None
                       /\ ~exists(disk, lastCall.inputs[1])
                  ELSE /\ get_state(user_states, u) = "unlocking_wait_password"
                       /\ get_temp(user_temp_data, u, "pdf_path") = lastCall.inputs[1])

C13_Witness ==
    /\ AfterCallOf(1)
    /\ lastCall.op = "unlock" /\ lastCall.ok /\ lastCall.again
    /\ calls = 2
    /\ get_state(user_states, 1) = None
    /\ Idle

\* C14: after an image-collection start, while the user sends photos only, in
\* every interleaving of their handlers: each photo is in the file list or
\* still downloading, and once the k handlers have returned the list has
\* exactly k entries.
PhotosInFlight(u) ==
    {s \in Slots : tasks[s].uid = u /\ tasks[s].kind = "photo"
                   /\ tasks[s].pc = "download"}

C14_EveryPhotoLands ==
    \A u \in Users :
        flow[u] = "images" =>
            /\ get_state(user_states, u) = "collecting_images"
            /\ \A s \in PhotosInFlight(u) : tasks[s].state = "collecting_images"
            /\ Len(get_files(user_files, u)) + Cardinality(PhotosInFlight(u))
                   = nphotos[u]
            /\ ~Busy(u) => Len(get_files(user_files, u)) = nphotos[u]

\* two handlers that overlapped (they computed the same file name), then a third
C14_Witness ==
    /\ flow[1] = "images" /\ nphotos[1] = 3 /\ ~Busy(1)
    /\ Len(get_files(user_files, 1)) = 3
    /\ get_files(user_files, 1)[1] = get_files(user_files, 1)[2]

\* C15: no staged file is handed to an adapter a second time during its
\* lifetime: the inputs of every adapter call are files no earlier call got.
C15_StagedFileHandedOnce == ~lastCall.again

\* C16: once a user's session is idle again and no handler of that user is
\* running, no file staged for that user is left on disk.
C16_IdleLeavesNoStagedFile ==
    \A u \in Users :
        (get_state(user_states, u) = None /\ ~Busy(u)) =>
            \A p \in DOMAIN disk : disk[p] # u

\* C17: every handler that called its adapter goes on to its cleanup, which
\* runs once; the output is still on disk when it has been sent, and after
\* the cleanup of a success neither the inputs nor the output are on disk.
C17_CleanupOnceAfterDelivery ==
    /\ [][\A s \in Slots :
            (tasks[s].pc = "adapter" /\ tasks'[s] # tasks[s]) =>
                tasks'[s].pc \in {"sent", "failed"}
         ]_vars
    /\ [][\A s \in Slots :
            (tasks[s].pc \in {"sent", "failed"} /\ tasks'[s] # tasks[s]) =>
                /\ tasks'[s] = NoTask
                /\ tasks[s].pc = "sent" =>
                        \A p \in SetOf(tasks[s].inputs) \cup {tasks[s].out} :
                            ~exists(disk', p)
         ]_vars
    /\ [](\A s \in Slots : tasks[s].pc = "sent" => exists(disk, tasks[s].out))

\* C18: no operation of the session store fails, whatever the user; for a
\* user it has no entry for, a read gives idle (None), the empty file list,
\* an absent param (None), the default language.
Raised(d) == d = KeyError

C18_StoreNeverFails ==
    /\ ~Raised(user_languages) /\ ~Raised(user_states)
    /\ ~Raised(user_files) /\ ~Raised(user_temp_data)
    /\ \A u \in Users :
          lastOp.uid = u =>
            /\ (lastOp.op = "get_user_language" /\ u \notin DOMAIN user_languages)
                   => lastOp.result = << DEFAULT_LANGUAGE >>
            /\ (lastOp.op = "get_state" /\ u \notin DOMAIN user_states)
                   => lastOp.result = << None >>
            /\ (lastOp.op = "get_files" /\ u \notin DOMAIN user_files)
                   => lastOp.result = << >>
            /\ (lastOp.op = "get_temp" /\ u \notin DOMAIN user_temp_data)
                   => lastOp.result = NonePath

\* a read for a user the store has no entry for, while it has one for another
C18_Witness ==
    /\ nevents = MaxEvents
    /\ lastOp = [op |-> "get_temp", uid |-> 2, result |-> NonePath]
    /\ 2 \notin DOMAIN user_languages \cup DOMAIN user_states
                 \cup DOMAIN user_files \cup DOMAIN user_temp_data
    /\ 1 \in DOMAIN user_temp_data

\* the entries of every user but u are as they were
OthersKept(u) ==
    \A v \in Users \ {u} :
        /\ get_state(user_states', v) = get_state(user_states, v)
        /\ get_files(user_files', v) = get_files(user_files, v)
        /\ \A key \in StoreKeys :
              get_temp(user_temp_data', v, key) = get_temp(user_temp_data, v, key)

\* C19: clear_state sets the user's state to idle (None) and leaves the
\* user's file list, params and language as they are.
C19_ClearStateOnlyState ==
    [][\A u \in Users :
        call_clear_state(u) =>
            /\ get_state(user_states', u) = None
            /\ u \notin DOMAIN user_states'
            /\ user_files' = user_files
            /\ user_temp_data' = user_temp_data
            /\ user_languages' = user_languages
            /\ OthersKept(u)
      ]_vars

C19_Witness ==
    /\ lastOp.op = "clear_state" /\ lastOp.uid = 1
    /\ get_state(user_states, 1) = None
    /\ get_state(user_states, 2) = "merging"
    /\ Len(get_files(user_files, 1)) = 1
    /\ get_temp(user_temp_data, 1, "pdf_path") # NonePath

\* C20: clear_all resets the user's state to idle, the file list to empty
\* and the params to absent, and leaves the user's language as it is.
C20_ClearAllKeepsLanguage ==
    [][\A u \in Users :
        call_clear_all(u) =>
            /\ get_state(user_states', u) = None
            /\ get_files(user_files', u) = << >>
            /\ u \notin DOMAIN user_temp_data'
            /\ \A key \in StoreKeys : get_temp(user_temp_data', u, key) = NonePath
            /\ user_languages' = user_languages
            /\ OthersKept(u)
      ]_vars

C20_Witness ==
    /\ lastOp.op = "clear_all" /\ lastOp.uid = 1
    /\ nevents = MaxEvents
    /\ user_languages = DictSet(EmptyDict, 1, "fa")
    /\ user_files = DictSet(EmptyDict, 1, << >>)
    /\ user_states = EmptyDict /\ user_temp_data = EmptyDict

\* C21: cleanup_files never raises, whatever the list (paths deleted before,
\* never there, empty or None, or twice in the list); it leaves every path
\* of the list absent and every other file as it was, and a second call on
\* the same list changes nothing.
C21_CleanupIdempotent ==
    [][\A file_paths \in CleanupLists :
        call_cleanup_files(file_paths) =>
            /\ disk' # FileNotFoundError
            /\ \A p \in SetOf(file_paths) : ~exists(disk', p)
            /\ \A p \in DOMAIN disk \ SetOf(file_paths) :
                  exists(disk', p) /\ disk'[p] = disk[p]
            /\ DOMAIN disk' \subseteq DOMAIN disk
            /\ cleanup_files(disk', file_paths) = disk'
      ]_vars

\* after a call on a staged file and None: the file list still names the
\* file, the disk no longer has it
C21_Witness ==
    /\ lastOp.op = "cleanup_files"
    /\ lastOp.result = << download_path(<< "a", ".", "p", "d", "f" >>), NonePath >>
    /\ nevents = MaxEvents
    /\ Len(get_files(user_files, 1)) = 1
    /\ ~exists(disk, get_files(user_files, 1)[1])
    /\ Idle

\* the quality the claim gives to a level text, "none" for every other text
QualityClaimed(text) ==
    CASE text = << "1" >> -> "low"
      [] text = << "2" >> -> "medium"
      [] text = << " ", "3", " " >> -> "high"
      [] OTHER -> "none"

\* C22: in state compressing_wait_level a text that denotes 1, 2 or 3 sends
\* the staged PDF to the compress adapter with quality low, medium or high;
\* any other text invokes no adapter, re-prompts and leaves the state
\* compressing_wait_level.
C22_LevelSelectsQuality ==
    /\ [][\A u \in Users, text \in LevelTexts :
            ( /\ handle_text(u, text)
              /\ get_state(user_states, u) = "compressing_wait_level" ) =>
                IF QualityClaimed(text) # "none"
                THEN /\ \E s \in Slots :
                          /\ tasks[s] = NoTask
                          /\ tasks'[s].uid = u
                          /\ tasks'[s].op = "compress"
                          /\ tasks'[s].pc = "adapter"
                          /\ tasks'[s].text = << QualityClaimed(text) >>
                          /\ tasks'[s].path =
                                 get_temp(user_temp_data, u, "pdf_path")
                     /\ session' = session
                ELSE /\ tasks' = tasks /\ calls' = calls
                     /\ reply'[u] = "enter_1_2_or_3"
                     /\ session' = session
                     /\ disk' = disk
         ]_vars
    /\ []((calls > 0 /\ lastCall.op = "compress") =>
               /\ lastCall.text \in {<< "low" >>, << "medium" >>, << "high" >>}
               /\ Len(lastCall.inputs) = 1)

C22_Witness ==
    /\ AfterCallOf(1) /\ lastCall.op = "compress" /\ lastCall.ok
    /\ lastCall.text = << "high" >>
    /\ get_state(user_states, 1) = None
    /\ Idle

\* the wait-for-scalar state the claim gives to a file-waiting state, "none"
\* for every other state
ScalarStateClaimed(state) ==
    CASE state = "rotating" -> "rotating_wait_angle"
      [] state = "compressing" -> "compressing_wait_level"
      [] state = "unlocking" -> "unlocking_wait_password"
      [] state = "protecting" -> "protecting_wait_password"
      [] state = "extracting_pages" -> "extracting_pages_wait_spec"
      [] state = "removing_pages" -> "removing_pages_wait_spec"
      [] OTHER -> "none"

\* C23: a PDF uploaded in the file-waiting state of rotate, compress, unlock,
\* protect, extract-pages or remove-pages becomes the pending file of the
\* session and the state moves to the operation's wait-for-scalar state, the
\* handler ending without an adapter call; uploaded in adding_page_numbers it
\* goes to the page-numbers adapter at once.
C23_UploadStagesThenWaits ==
    [][\A s \in Slots :
        (document_downloaded(s) /\ is_pdf_name(tasks[s].path)) =>
            /\ ScalarStateClaimed(tasks[s].state) # "none" =>
                  /\ get_temp(user_temp_data', tasks[s].uid, "pdf_path")
                         = tasks[s].path
                  /\ exists(disk', tasks[s].path)
                  /\ get_state(user_states', tasks[s].uid)
                         = ScalarStateClaimed(tasks[s].state)
                  /\ tasks'[s] = NoTask
                  /\ calls' = calls
            /\ tasks[s].state = "adding_page_numbers" =>
                  /\ tasks'[s].pc = "adapter"
                  /\ tasks'[s].op = "page_numbers"
                  /\ adapter_inputs(tasks'[s]) = << tasks[s].path >>
                  /\ session' = session
      ]_vars

C23_Witness ==
    /\ get_state(user_states, 1) = "protecting_wait_password"
    /\ reply[1] = "enter_new_password"
    /\ exists(disk, get_temp(user_temp_data, 1, "pdf_path"))
    /\ calls = 0
    /\ Idle

\* C24: in state adding_watermark a PDF upload stages the PDF, keeps the
\* state and calls no adapter; the photo that follows goes to the watermark
\* adapter with that PDF and that image; once that call has returned,
\* success or failure, the state is idle and the pdf_path param is gone.
C24_WatermarkTwoStage ==
    /\ [][\A s \in Slots :
            ( /\ document_downloaded(s)
              /\ tasks[s].state = "adding_watermark"
              /\ is_pdf_name(tasks[s].path) ) =>
                /\ get_temp(user_temp_data', tasks[s].uid, "pdf_path")
                       = tasks[s].path
                /\ user_states' = user_states
                /\ tasks'[s] = NoTask
                /\ calls' = calls
         ]_vars
    /\ [][\A s \in Slots :
            ( /\ photo_downloaded(s)
              /\ tasks[s].state = "adding_watermark"
              /\ get_temp(user_temp_data, tasks[s].uid, "pdf_path") # NonePath ) =>
                /\ tasks'[s].pc = "adapter"
                /\ tasks'[s].op = "watermark"
                /\ adapter_inputs(tasks'[s]) =
                       << get_temp(user_temp_data, tasks[s].uid, "pdf_path"),
                          tasks[s].path >>
                /\ session' = session
         ]_vars
    /\ [](\A u \in Users :
            (AfterCallOf(u) /\ lastCall.op = "watermark") =>
                /\ get_state(user_states, u) = None
                /\ get_temp(user_temp_data, u, "pdf_path") = NonePath)

\* C25: a PDF uploaded while the state is splitting is handled by the split
\* operation, not by the default conversion, and once the adapter it went to
\* has run the session is idle.
C25_SplitHasItsFlow ==
    /\ [][\A s \in Slots :
            ( /\ document_downloaded(s)
              /\ tasks[s].state = "splitting"
              /\ is_pdf_name(tasks[s].path) ) =>
                tasks'[s].op # "convert_document"
         ]_vars
    /\ [](\A u \in Users :
            AfterCallOf(u) => get_state(user_states, u) # "splitting")

\* the six states in which a text is the awaited scalar
ScalarWaitStates ==
    {"rotating_wait_angle", "compressing_wait_level", "unlocking_wait_password",
     "protecting_wait_password", "extracting_pages_wait_spec",
     "removing_pages_wait_spec"}

\* C26: a text received in any other state, idle included, invokes no
\* adapter, is answered with the main menu and leaves the state, the file
\* list, the params and the disk as they are.
C26_StrayTextShowsMenu ==
    [][\A u \in Users, text \in Texts :
        ( /\ handle_text(u, text)
          /\ get_state(user_states, u) \notin ScalarWaitStates ) =>
            /\ tasks' = tasks /\ calls' = calls
            /\ reply'[u] = "choose_action"
            /\ session' = session
            /\ user_languages' = user_languages
            /\ disk' = disk
      ]_vars

C26_Witness ==
    /\ reply[1] = "choose_action"
    /\ get_state(user_states, 1) = "merging"
    /\ Len(get_files(user_files, 1)) = 1
    /\ calls = 0
    /\ Idle

ConvertOps == {"convert_document", "convert_image"}

\* a handler of an upload that arrived in the idle state
IdleUpload(t) == t.kind \in {"document", "photo"} /\ t.state = None

\* C27: a document (of an accepted size) or a photo uploaded while the state
\* is idle goes to the default conversion: its handler calls the conversion
\* adapter with the uploaded file, once, and nothing else; no step of it
\* changes the state, the file list or the params; when it ends, after a
\* success or a failure, the uploaded file is not on disk.
C27_IdleUploadIsConverted ==
    /\ [][\A s \in Slots :
            IdleUpload(tasks[s]) =>
                /\ session' = session
                /\ (document_downloaded(s) \/ photo_downloaded(s)) =>
                      /\ tasks'[s].pc = "adapter"
                      /\ tasks'[s].op =
                            (IF tasks[s].kind = "document" THEN "convert_document"
                             ELSE "convert_image")
                      /\ adapter_inputs(tasks'[s]) = << tasks[s].path >>
                      /\ calls' = calls
                /\ (tasks[s].pc = "adapter" /\ tasks'[s] # tasks[s]) =>
                      /\ calls' = calls + 1
                      /\ lastCall'.inputs = << tasks[s].path >>
                      /\ ~lastCall'.again
                /\ (tasks[s].pc # "adapter" /\ tasks'[s] # tasks[s]) =>
                      calls' = calls
                /\ (tasks[s].pc \in {"adapter", "sent", "failed"}
                    /\ tasks'[s] = NoTask) =>
                      ~exists(disk', tasks[s].path)
         ]_vars
    /\ [](\A s \in Slots :
            (IdleUpload(tasks[s]) /\ tasks[s].pc # "download") =>
                tasks[s].op \in ConvertOps)

C27_Witness ==
    /\ AfterCallOf(1) /\ lastCall.op = "convert_image" /\ lastCall.ok
    /\ calls = 1
    /\ session = << EmptyDict, EmptyDict, EmptyDict >>
    /\ disk = EmptyDict
    /\ Idle

\* the command strings button_callback has a branch for
Recognized(data) ==
    \/ data[1] = "lang"
    \/ data = << "back", "to", "menu" >>
    \/ data[1] = "menu"
    \/ \E i \in 1..Len(StartTable) : StartTable[i].data = data
    \/ data \in {<< "do", "merge" >>, << "create", "pdf", "from", "images" >>,
                 << "subscribe", "coming" >>, << "unsubscribe", "coming" >>}

UnknownButtons == {data \in Buttons : ~Recognized(data)}

\* C28: a button press with a command string button_callback has no branch
\* for is answered with the feature-pending response and changes nothing:
\* state, file list, params, language and disk are as they were, no handler
\* is left running and no adapter is called.
C28_UnknownButtonChangesNothing ==
    [][\A u \in Users, data \in UnknownButtons :
        button_callback(u, data) =>
            /\ reply'[u] = "coming_soon"
            /\ session' = session
            /\ user_languages' = user_languages
            /\ disk' = disk
            /\ tasks' = tasks /\ calls' = calls
      ]_vars

C28_Witness ==
    /\ reply[1] = "coming_soon"
    /\ get_state(user_states, 1) = "merging"
    /\ Len(get_files(user_files, 1)) = 1
    /\ exists(disk, get_files(user_files, 1)[1])
    /\ Idle

\* C29: in every reachable state, after whatever adapter failures, every
\* update is answered: its handler sends a response when the update arrives
\* or goes to its download, and sends one at the end of the download and at
\* the return of its adapter call, raised or not; /cancel is answered and
\* leaves the state idle and the file list empty.
C29_AlwaysAnswered ==
    /\ [][nevents' = nevents + 1 =>
            \/ answered' = answered + 1
            \/ \E s \in Slots : tasks[s] = NoTask /\ tasks'[s].pc = "download"
         ]_vars
    /\ [][\A s \in Slots :
            (tasks[s].pc \in {"download", "adapter"} /\ tasks'[s] # tasks[s]) =>
                /\ answered' = answered + 1
                /\ reply'[tasks[s].uid] # "none"
         ]_vars
    /\ [][\A u \in Users :
            cancel_command(u) =>
                /\ reply'[u] = "operation_cancelled"
                /\ answered' = answered + 1
                /\ get_state(user_states', u) = None
                /\ get_files(user_files', u) = << >>
         ]_vars

\* /cancel after an adapter call that raised and left the session as it was
C29_Witness ==
    /\ reply[1] = "operation_cancelled"
    /\ calls = 1 /\ lastCall.uid = 1 /\ ~lastCall.ok
    /\ get_state(user_states, 1) = None
    /\ 1 \in DOMAIN user_files /\ user_files[1] = << >>
    /\ disk # EmptyDict
    /\ Idle

\* C30: a handler is at the call of the merge adapter only while the state
\* of its user is merging, and at the call of the images-to-PDF adapter only
\* while it is collecting_images.
C30_FinalizeOnlyInItsFlow ==
    \A s \in Slots :
        tasks[s].pc = "adapter" =>
            /\ tasks[s].op = "merge" =>
                  get_state(user_states, tasks[s].uid) = "merging"
            /\ tasks[s].op = "images_to_pdf" =>
                  get_state(user_states, tasks[s].uid) = "collecting_images"

\* C31: no handler is at its adapter call with an input path that is not on
\* disk (deleted by the cleanup of an earlier operation): the pdf_path a
\* second-step input picks up is a file of the current flow, still there.
C31_AdapterInputsOnDisk ==
    \A s \in Slots :
        tasks[s].pc = "adapter" =>
            \A p \in SetOf(adapter_inputs(tasks[s])) : exists(disk, p)

\* C32: an upload handler that changes the session at the end of its download
\* (appends the file, stores pdf_path, sets a state) does so only when the
\* user's state at that moment is still the one it read before the download.
C32_UploadActsOnCurrentState ==
    [][\A s \in Slots :
          (document_downloaded(s) /\ session' # session) =>
              get_state(user_states, tasks[s].uid) = tasks[s].state]_vars

\* C33: the end of execute-merge / finalize-images deletes and drops only the
\* files its adapter was called with: a file of the list that was not an
\* adapter input is still in the list and on disk after the handler finished.
C33_FinalizeTouchesOnlyItsInputs ==
    [][\A s \in Slots :
          (finish(s) /\ tasks[s].op \in ListOps) =>
              \A p \in SetOf(get_files(user_files, tasks[s].uid))
                          \ SetOf(tasks[s].inputs) :
                  /\ p \in SetOf(get_files(user_files', tasks[s].uid))
                  /\ (exists(disk, p) => exists(disk', p))]_vars

\* C34: while one user's merge / images-to-PDF artifact is being delivered
\* (between the adapter's return and the cleanup), no other user's operation
\* in flight writes or has written its output to the same path.
C34_OutputsPrivate ==
    \A s, r \in Slots :
        (/\ tasks[s].uid # tasks[r].uid
         /\ tasks[s].op \in ListOps /\ tasks[r].op \in ListOps
         /\ tasks[s].pc = "sent"
         /\ tasks[r].pc \in {"adapter", "sent"})
            => tasks[s].out # adapter_output(tasks[r])

\* C35: the paths in a user's file list are pairwise distinct.
C35_FilePathsDistinct ==
    \A u \in Users :
        LET files == get_files(user_files, u) IN
        \A i, j \in 1..Len(files) : i # j => files[i] # files[j]

\* an update of user u or a step of one of u's handlers, or a direct call of
\* a writing operation of the store with u's id
EventOf(u) ==
    \/ \E data \in MergeButtons : button_callback(u, data)
    \/ cancel_command(u)
    \/ handle_document(u, SessionName, 1)
    \/ \E s \in Slots :
          /\ tasks[s].uid = u
          /\ \/ document_downloaded(s)
             \/ \E ok \in BOOLEAN : run_adapter(s, ok)
             \/ finish(s)
             \/ failed_cleanup(s)
    \/ call_set_user_language(u, "fa")
    \/ call_set_state(u, "merging")
    \/ call_clear_state(u)
    \/ call_add_file(u, download_path(SessionName))
    \/ call_clear_files(u)
    \/ call_set_temp(u, "pdf_path", download_path(SessionName))
    \/ call_clear_temp(u)
    \/ call_clear_all(u)

\* C36: a store operation or an event of user u leaves the state, the file
\* list, the params and the language of every other user as they were.
C36_SessionsIsolated ==
    [][\A u \in Users :
          EventOf(u) =>
              /\ OthersKept(u)
              /\ \A v \in Users \ {u} :
                    /\ get_user_language(user_languages', v)
                           = get_user_language(user_languages, v)
                    /\ (v \in DOMAIN user_states') = (v \in DOMAIN user_states)
                    /\ (v \in DOMAIN user_files') = (v \in DOMAIN user_files)
                    /\ (v \in DOMAIN user_temp_data')
                           = (v \in DOMAIN user_temp_data)]_vars

\* user 2 holds a state, a staged file and a pending pdf_path, and the last
\* store call, set_user_language of user 1, changed only user 1's language
C36_Witness ==
    /\ get_state(user_states, 2) = "merging"
    /\ get_files(user_files, 2) # << >>
    /\ get_temp(user_temp_data, 2, "pdf_path") = download_path(SessionName)
    /\ lastOp.op = "set_user_language" /\ lastOp.uid = 1
    /\ get_user_language(user_languages, 1) = "fa"
    /\ get_user_language(user_languages, 2) = DEFAULT_LANGUAGE
    /\ 1 \notin DOMAIN user_states

\* C37: a document larger than the maximum size is rejected before anything
\* is downloaded: the user is told file_too_large, no handler is left
\* awaiting a download or an adapter, no adapter is called, and the state, the
\* file list, the params and the disk are unchanged, whatever the state is.
C37_TooLargeRejected ==
    [][\A u \in Chat, n \in DocNames, z \in FileSizes :
          (z > MAX_FILE_SIZE_MB * BytesPerMB /\ handle_document(u, n, z)) =>
              /\ reply'[u] = "file_too_large"
              /\ tasks' = tasks
              /\ session' = session
              /\ disk' = disk
              /\ calls' = calls
              /\ staged' = staged]_vars

\* an oversized document was refused in the middle of a merge: the state is
\* still merging, the staged file is still listed and on disk, no handler runs
C37_Witness ==
    /\ reply[1] = "file_too_large"
    /\ get_state(user_states, 1) = "merging"
    /\ get_files(user_files, 1) # << >>
    /\ \A p \in SetOf(get_files(user_files, 1)) : exists(disk, p)
    /\ Idle
    /\ calls = 0

====
